---- MODULE Spec2Model ----
(***************************************************************************)
(* Model of src/server.js: five historical variants of one Express server  *)
(* that proxies the CWA 36-hour forecast (F-C0032-001).  The variants are  *)
(* the five programs concatenated in the file (lines 1-202, 203-299,       *)
(* 300-452, 453-557, 558-752); a deployment runs exactly one of them.      *)
(*                                                                         *)
(* Text is modelled as a sequence of tokens.  A token is one character of  *)
(* the URL alphabet ("%", "2", "5", ...) or an atom standing for a run of  *)
(* characters that contains no "%" (a city name, a timestamp, a parameter  *)
(* value).  The 22 Chinese region names are written in romanised form      *)
(* because the module is ASCII.                                            *)
(***************************************************************************)
EXTENDS Naturals, Sequences, FiniteSets, TLC

(***************************************************************************)
(* JavaScript values.  Every value is a record [t, v]: t is the type tag   *)
(* and v the token sequence of a string (empty for the other types).       *)
(***************************************************************************)
Undef == [t |-> "undefined", v |-> <<>>]
Null == [t |-> "null", v |-> <<>>]
True == [t |-> "boolean", v |-> <<"true">>]
False == [t |-> "boolean", v |-> <<"false">>]
Str(s) == [t |-> "string", v |-> s]
Lit(a) == Str(<<a>>)

IsString(x) == x.t = "string"

\* JavaScript truthiness of a value (used by || and !).
Truthy(x) ==
  CASE x.t = "string" -> x.v # <<>>
    [] x.t = "boolean" -> x = True
    [] OTHER -> FALSE

\* a || b
OrElse(a, b) == IF Truthy(a) THEN a ELSE b

\* String(x), as the + operator and template literals apply it.
ToStr(x) ==
  CASE x.t = "string" -> x.v
    [] x.t = "undefined" -> <<"undefined">>
    [] x.t = "null" -> <<"null">>
    [] OTHER -> x.v

\* x + "%"
PlusPercent(x) == Str(ToStr(x) \o <<"%">>)

\* An optional object: <<>> when the property is undefined, <<o>> otherwise.
None == <<>>
Some(o) == <<o>>
Has(opt) == opt # <<>>
Get(opt) == opt[1]

(***************************************************************************)
(* Configuration of one deployment.                                        *)
(***************************************************************************)

\* TAIWAN_CITIES as the source lists it (the same 22 names in every variant).
TaiwanCityList ==
  << <<"TaipeiCity">>, <<"NewTaipeiCity">>, <<"TaoyuanCity">>,
     <<"TaichungCity">>, <<"TainanCity">>, <<"KaohsiungCity">>,
     <<"KeelungCity">>, <<"HsinchuCity">>, <<"ChiayiCity">>,
     <<"HsinchuCounty">>, <<"MiaoliCounty">>, <<"ChanghuaCounty">>,
     <<"NantouCounty">>, <<"YunlinCounty">>, <<"ChiayiCounty">>,
     <<"PingtungCounty">>, <<"YilanCounty">>, <<"HualienCounty">>,
     <<"TaitungCounty">>, <<"PenghuCounty">>, <<"KinmenCounty">>,
     <<"LienchiangCounty">> >>

\* The city substituted by variants 1 and 2.
DefaultCity == <<"TaipeiCity">>

\* The five programs of src/server.js.
Variants == {1, 2, 3, 4, 5}

\* Array.prototype.includes on an array of strings.
Includes(arr, s) == \E i \in 1..Len(arr) : arr[i] = s

(***************************************************************************)
(* decodeURIComponent on token sequences.  "%" followed by two hex digits  *)
(* is replaced by the character with that code; any other "%" makes the    *)
(* call throw URIError.  The alphabet of the model only forms the codes    *)
(* 0x22, 0x25, 0x52 and 0x55, all of them one-byte characters.             *)
(***************************************************************************)
HexDigits == {"2", "5"}

HexValue(d) == IF d = "2" THEN 2 ELSE 5

CharOfCode(c) ==
  CASE c = 34 -> "\""
    [] c = 37 -> "%"
    [] c = 82 -> "R"
    [] OTHER -> "U"

RECURSIVE DecodeFrom(_)
DecodeFrom(s) ==
  IF s = <<>> THEN [threw |-> FALSE, v |-> <<>>]
  ELSE IF Head(s) # "%"
    THEN LET rest == DecodeFrom(Tail(s))
         IN [threw |-> rest.threw,
             v |-> IF rest.threw THEN <<>> ELSE <<Head(s)>> \o rest.v]
  ELSE IF Len(s) >= 3 /\ s[2] \in HexDigits /\ s[3] \in HexDigits
    THEN LET rest == DecodeFrom(SubSeq(s, 4, Len(s)))
             ch == CharOfCode(16 * HexValue(s[2]) + HexValue(s[3]))
         IN [threw |-> rest.threw,
             v |-> IF rest.threw THEN <<>> ELSE <<ch>> \o rest.v]
  ELSE [threw |-> TRUE, v |-> <<>>]

\* decodeURIComponent(x): x is converted with String(x) first.
decodeURIComponent(x) == DecodeFrom(ToStr(x))

(***************************************************************************)
(* The upstream payload (what axios hands back as response.data).          *)
(*                                                                         *)
(*   data.records.resource.dataTime                                        *)
(*   data.records.location[k].locationName                                 *)
(*   data.records.location[k].weatherElement[j].elementName                *)
(*   data.records.location[k].weatherElement[j].time[i].startTime          *)
(*                                                   .endTime              *)
(*                                                   .parameter            *)
(*                                                      .parameterName     *)
(*                                                      .parameterValue    *)
(*                                                                         *)
(* A payload is built from a descriptor so that a state keeps the small    *)
(* descriptor and not the whole document.                                  *)
(***************************************************************************)

\* Largest number of time windows per element in a payload.
MaxN == 3

\* Longest raw city parameter made of URL characters.
MaxParamLen == 3

\* The five elements the handlers know, in the order the upstream sends them.
KnownElements == <<"Wx", "PoP", "MinT", "CI", "MaxT">>

KnownNames == {KnownElements[j] : j \in 1..Len(KnownElements)}

\* An element name no handler knows.
UnknownElement == "WS"

Defects ==
  {"none", "missing", "short", "extra", "noTimes", "noParameter", "noElements"}

ElementDefects == {"missing", "short", "noParameter"}

Shapes ==
  {"noData", "noRecords", "noLocation", "empty", "other", "match",
   "otherThenMatch"}

Descriptors ==
  { d \in [n : 0..MaxN, wxFirst : BOOLEAN, defect : Defects,
           elem : KnownNames, resource : {"absent", "noDataTime", "dataTime"},
           shape : Shapes] :
      /\ (d.defect \notin ElementDefects) => d.elem = "Wx"
      /\ (d.defect \in {"short", "noParameter", "noTimes"}) => d.n > 0
      /\ (d.shape \in {"noData", "noRecords", "noLocation", "empty"}) =>
            /\ d.n = 0 /\ d.wxFirst /\ d.defect = "none"
      /\ (d.shape \in {"noData", "noRecords"}) => d.resource = "absent" }

\* The descriptor carried by replies that have no payload.
NoPayload ==
  [n |-> 0, wxFirst |-> TRUE, defect |-> "none", elem |-> "Wx",
   resource |-> "absent", shape |-> "noData"]

\* Number of time windows of element e.
ElemLen(e, d) ==
  IF d.defect = "short" /\ d.elem = e THEN d.n - 1 ELSE d.n

TimeEntry(e, i, d) ==
  [startTime |-> IF d.defect = "noTimes" THEN Undef
                 ELSE Str(<<"start", ToString(i)>>),
   endTime |-> IF d.defect = "noTimes" THEN Undef
               ELSE Str(<<"end", ToString(i)>>),
   parameter |-> IF d.defect = "noParameter" /\ d.elem = e THEN None
                 ELSE Some([parameterName |-> Str(<<e, ToString(i)>>),
                            parameterValue |-> Str(<<ToString(i)>>)])]

Element(e, d) ==
  [elementName |-> e,
   time |-> [i \in 1..ElemLen(e, d) |-> TimeEntry(e, i, d)]]

\* The names of the elements sent, in order.
ElementOrder(d) ==
  LET base == IF d.wxFirst THEN KnownElements
              ELSE SubSeq(KnownElements, 2, Len(KnownElements)) \o <<"Wx">>
      kept == SelectSeq(base, LAMBDA e : ~(d.defect = "missing" /\ d.elem = e))
  IN IF d.defect = "extra" THEN <<UnknownElement>> \o kept ELSE kept

WeatherElements(d) ==
  LET names == ElementOrder(d)
  IN [j \in 1..Len(names) |-> Element(names[j], d)]

Location(city, d) ==
  [locationName |-> Str(city),
   weatherElement |-> IF d.defect = "noElements" THEN None
                      ELSE Some(WeatherElements(d))]

\* A member city different from the requested one.
OtherCity(city) ==
  IF city = <<"KaohsiungCity">> THEN <<"TaipeiCity">> ELSE <<"KaohsiungCity">>

Locations(city, d) ==
  CASE d.shape = "match" -> Some(<<Location(city, d)>>)
    [] d.shape = "other" -> Some(<<Location(OtherCity(city), d)>>)
    [] d.shape = "otherThenMatch" ->
         Some(<<Location(OtherCity(city), d), Location(city, d)>>)
    [] d.shape = "empty" -> Some(<<>>)
    [] OTHER -> None

\* The dataTime a payload with a resource.dataTime carries.
DataTime == Str(<<"dataTime">>)

Resource(d) ==
  CASE d.resource = "dataTime" -> Some([dataTime |-> DataTime])
    [] d.resource = "noDataTime" -> Some([dataTime |-> Undef])
    [] OTHER -> None

\* response.data for a request of `city` answered with the payload d.
Payload(city, d) ==
  CASE d.shape = "noData" -> None
    [] d.shape = "noRecords" -> Some([records |-> None])
    [] OTHER -> Some([records |->
                        Some([resource |-> Resource(d),
                              location |-> Locations(city, d)])])

(***************************************************************************)
(* Normalisation: the loops that pivot the per-element series into         *)
(* per-period forecast objects.  A forecast is a record over every key any *)
(* variant writes; Undef is a key that was never assigned (JSON.stringify  *)
(* leaves such a key out of the body).  Indices are 1-based here and       *)
(* 0-based in the source.                                                  *)
(*                                                                         *)
(* An evaluation that can throw returns [threw, why, ...]: why is the      *)
(* message of the TypeError.                                               *)
(***************************************************************************)
BlankForecast ==
  [startTime |-> Undef, endTime |-> Undef, weather |-> Undef, rain |-> Undef,
   minTemp |-> Undef, maxTemp |-> Undef, comfort |-> Undef, wx |-> Undef,
   wxValue |-> Undef, rainProb |-> Undef]

\* The message of the TypeError thrown by reading `prop` of undefined.
TypeErr(prop) == <<"Cannot read properties of undefined, reading", prop>>

SetMin(S) == CHOOSE x \in S : \A y \in S : x <= y
SetMax(S) == CHOOSE x \in S : \A y \in S : y <= x

\* weatherElements.find(e => e.elementName === name)
FindElement(els, name) ==
  LET idx == {j \in 1..Len(els) : els[j].elementName = name}
  IN IF idx = {} THEN None ELSE Some(els[SetMin(idx)])

\* The switch on element.elementName of variants 1, 2, 4 and 5.
AssignField(f, name, value) ==
  CASE name = "Wx" -> [f EXCEPT !.weather = value.parameterName]
    [] name = "PoP" -> [f EXCEPT !.rain = PlusPercent(value.parameterName)]
    [] name = "MinT" -> [f EXCEPT !.minTemp = value.parameterName]
    [] name = "MaxT" -> [f EXCEPT !.maxTemp = value.parameterName]
    [] name = "CI" -> [f EXCEPT !.comfort = value.parameterName]
    [] OTHER -> f

\* The assignments to forecast.startTime / endTime inside forEach:
\* none in variant 1, startTime in variant 2, both in variants 4 and 5.
AssignTimes(f, t, v) ==
  CASE v = 1 -> f
    [] v = 2 -> [f EXCEPT !.startTime = t.startTime]
    [] OTHER -> [f EXCEPT !.startTime = t.startTime, !.endTime = t.endTime]

\* weatherElements.forEach(element => { ... }) for period i.
RECURSIVE ForEachElement(_, _, _, _)
ForEachElement(els, i, f, v) ==
  IF els = <<>> THEN [threw |-> FALSE, why |-> <<>>, f |-> f]
  ELSE LET el == Head(els)
       IN IF i > Len(el.time)
          THEN [threw |-> TRUE, why |-> TypeErr("parameter"), f |-> f]
          ELSE LET t == el.time[i]
                   f1 == AssignTimes(f, t, v)
               IN IF el.elementName \in KnownNames /\ ~Has(t.parameter)
                  THEN [threw |-> TRUE, why |-> TypeErr("parameterName"),
                        f |-> f]
                  ELSE ForEachElement(
                         Tail(els), i,
                         IF el.elementName \in KnownNames
                         THEN AssignField(f1, el.elementName, Get(t.parameter))
                         ELSE f1,
                         v)

\* The object literal that starts a forecast: variant 1 reads the window of
\* the Wx element and presets the five fields to ""; the others start from {}.
InitialForecast(els, i, v) ==
  IF v # 1 THEN [threw |-> FALSE, why |-> <<>>, f |-> BlankForecast]
  ELSE LET wx == FindElement(els, "Wx")
       IN IF ~Has(wx)
          THEN [threw |-> TRUE, why |-> TypeErr("time"), f |-> BlankForecast]
          ELSE IF i > Len(Get(wx).time)
          THEN [threw |-> TRUE, why |-> TypeErr("startTime"),
                f |-> BlankForecast]
          ELSE [threw |-> FALSE, why |-> <<>>,
                f |-> [BlankForecast EXCEPT
                         !.startTime = Get(wx).time[i].startTime,
                         !.endTime = Get(wx).time[i].endTime,
                         !.weather = Str(<<>>), !.rain = Str(<<>>),
                         !.minTemp = Str(<<>>), !.maxTemp = Str(<<>>),
                         !.comfort = Str(<<>>)]]

\* for (let i = 0; i < count; i++) { ...; forecasts.push(forecast) }
RECURSIVE ForecastLoop(_, _, _, _, _)
ForecastLoop(els, i, count, v, acc) ==
  IF i > count THEN [threw |-> FALSE, why |-> <<>>, forecasts |-> acc]
  ELSE LET f0 == InitialForecast(els, i, v)
       IN IF f0.threw
          THEN [threw |-> TRUE, why |-> f0.why, forecasts |-> acc]
          ELSE LET r == ForEachElement(els, i, f0.f, v)
               IN IF r.threw
                  THEN [threw |-> TRUE, why |-> r.why, forecasts |-> acc]
                  ELSE ForecastLoop(els, i + 1, count, v, Append(acc, r.f))

\* The number of periods variants 2 and 4 always produce.
FixedPeriods == 3

\* Variants 1, 2, 4, 5: the forecasts of locationData.weatherElement.
BuildForecasts(weatherElement, v) ==
  IF v \in {2, 4}
  THEN IF ~Has(weatherElement)
       THEN [threw |-> TRUE, why |-> TypeErr("forEach"), forecasts |-> <<>>]
       ELSE ForecastLoop(Get(weatherElement), 1, FixedPeriods, v, <<>>)
  ELSE IF ~Has(weatherElement)
       THEN [threw |-> TRUE, why |-> TypeErr("0"), forecasts |-> <<>>]
       ELSE IF Get(weatherElement) = <<>>
       THEN [threw |-> TRUE, why |-> TypeErr("time"), forecasts |-> <<>>]
       ELSE ForecastLoop(Get(weatherElement), 1,
                         Len(Get(weatherElement)[1].time), v, <<>>)

(***************************************************************************)
(* Variant 3: element map, then defensive indexing.                        *)
(***************************************************************************)
EmptyEntry == [startTime |-> Undef, endTime |-> Undef, parameter |-> None]
EmptyParam == [parameterName |-> Undef, parameterValue |-> Undef]

\* elementMap[name] || []  (the last element of that name wins)
ElementList(weatherElement, name) ==
  LET els == IF Has(weatherElement) THEN Get(weatherElement) ELSE <<>>
      idx == {j \in 1..Len(els) : els[j].elementName = name}
  IN IF idx = {} THEN <<>> ELSE els[SetMax(idx)].time

\* list[i] || {}
EntryAt(list, i) == IF i <= Len(list) THEN list[i] ELSE EmptyEntry

\* entry.parameter || {}
ParamOf(entry) ==
  IF Has(entry.parameter) THEN Get(entry.parameter) ELSE EmptyParam

ForecastV3(weatherElement, i) ==
  LET wx == EntryAt(ElementList(weatherElement, "Wx"), i)
      pop == EntryAt(ElementList(weatherElement, "PoP"), i)
      minT == EntryAt(ElementList(weatherElement, "MinT"), i)
      maxT == EntryAt(ElementList(weatherElement, "MaxT"), i)
      ci == EntryAt(ElementList(weatherElement, "CI"), i)
  IN [BlankForecast EXCEPT
        !.startTime = OrElse(wx.startTime,
                        OrElse(maxT.startTime, OrElse(minT.startTime, Null))),
        !.endTime = OrElse(wx.endTime,
                      OrElse(maxT.endTime, OrElse(minT.endTime, Null))),
        !.wx = OrElse(ParamOf(wx).parameterName, Str(<<>>)),
        !.wxValue = OrElse(ParamOf(wx).parameterValue, Str(<<>>)),
        !.rainProb = OrElse(ParamOf(pop).parameterName, Str(<<>>)),
        !.minTemp = OrElse(ParamOf(minT).parameterName, Str(<<>>)),
        !.maxTemp = OrElse(ParamOf(maxT).parameterName, Str(<<>>)),
        !.comfort = OrElse(ParamOf(ci).parameterName, Str(<<>>))]

BuildForecastsV3(weatherElement) ==
  [i \in 1..Len(ElementList(weatherElement, "Wx")) |->
     ForecastV3(weatherElement, i)]

\* The readings of the system clock: it only moves forward.
MaxClock == 1

ClockValues == 0..MaxClock

\* new Date().toISOString() when the clock reads `now`.
NowISO(now) == Str(<<"now", ToString(now)>>)

\* (wxList[0] && wxList[0].startTime) || new Date().toISOString()
UpdateTimeV3(weatherElement, now) ==
  LET wxList == ElementList(weatherElement, "Wx")
  IN IF wxList # <<>> THEN OrElse(wxList[1].startTime, NowISO(now))
     ELSE NowISO(now)

(***************************************************************************)
(* Responses.  A body is a record over every key any variant sends; Undef  *)
(* is an absent key.  `nested` says whether city, updateTime and forecasts *)
(* sit under the key "data" (variants 1, 2, 4, 5) or at the top level      *)
(* (variant 3).  Messages are token sequences.                             *)
(***************************************************************************)
EmptyBody ==
  [success |-> Undef, error |-> Undef, message |-> Undef, msg |-> Undef,
   details |-> Undef, status |-> Undef, timestamp |-> Undef,
   nested |-> FALSE, city |-> Undef,
   updateTime |-> Undef, forecasts |-> <<>>, cities |-> <<>>]

\* res.status(code).json(body): Express sets Content-Type: application/json.
Json(code, body) ==
  [status |-> code, type |-> "application/json", noStore |-> FALSE,
   body |-> body]

\* res.send(text): Express sets Content-Type: text/html for a string.
Text(code) ==
  [status |-> code, type |-> "text/html", noStore |-> FALSE,
   body |-> EmptyBody]

NoResponse ==
  [status |-> 0, type |-> "", noStore |-> FALSE, body |-> EmptyBody]

\* A thrown Error: its message and, for an axios error with an HTTP
\* answer, error.response = {status, data}.
NoError == [message |-> <<>>, response |-> None]
PlainError(m) == [message |-> m, response |-> None]

\* What one run of handler code ends with: a response, the suspension at
\* `await axios.get`, or an exception that leaves the handler.
Respond(r) ==
  [kind |-> "respond", res |-> r, locationName |-> <<>>, err |-> NoError]
Await(name) ==
  [kind |-> "await", res |-> NoResponse, locationName |-> name,
   err |-> NoError]
Throw(e) ==
  [kind |-> "throw", res |-> NoResponse, locationName |-> <<>>, err |-> e]

\* TAIWAN_CITIES.join(', ')
RECURSIVE Join(_)
Join(arr) ==
  IF arr = <<>> THEN <<>>
  ELSE IF Len(arr) = 1 THEN arr[1]
  ELSE arr[1] \o <<", ">> \o Join(Tail(arr))

\* The 400 of each variant for a name it rejects.
InvalidCityResponse(v, name, cities) ==
  CASE v = 1 ->
         Json(400, [EmptyBody EXCEPT
           !.error = Lit("input error"),
           !.message = Str(<<"invalid city name: ">> \o name
                           \o <<"; provide one of: ">> \o Join(cities))])
    [] v = 3 ->
         Json(400, [EmptyBody EXCEPT
           !.success = False,
           !.message = Str(<<"unsupported city: ">> \o name)])
    [] v = 4 ->
         Json(400, [EmptyBody EXCEPT !.error = Lit("invalid city name")])
    [] OTHER ->
         Json(400, [EmptyBody EXCEPT
           !.success = False,
           !.error = Lit("input error"),
           !.message = Str(<<"invalid city name: ">> \o name
                           \o <<"; provide one of: ">> \o Join(cities))])

\* The message of the Error variants 2 and 4 throw for a missing key.
KeyNotSet == <<"API key not set">>

\* The catch block of each variant.
Catch(v, error) ==
  CASE v = 1 ->
         IF Has(error.response) /\ Get(error.response).status = 401
         THEN Respond(Json(401, [EmptyBody EXCEPT
                !.error = Lit("CWA API authorization error"),
                !.message = Lit("check that CWA_API_KEY is correct")]))
         ELSE Respond(Json(500, [EmptyBody EXCEPT
                !.error = Lit("server error"),
                !.message = Lit("cannot get weather data, try again later"),
                !.details = Str(error.message)]))
    [] v \in {2, 4} ->
         Respond(Json(500, [EmptyBody EXCEPT
           !.error = Lit("server error"), !.msg = Str(error.message)]))
    [] v = 3 ->
         Respond(Json(500, [EmptyBody EXCEPT
           !.success = False,
           !.message = OrElse(Str(error.message),
                              Lit("server error, try again later"))]))
    [] OTHER ->
         IF Has(error.response)
         THEN IF Get(error.response).data.nullish
              THEN Throw(PlainError(TypeErr("message")))
              ELSE Respond(Json(Get(error.response).status,
                     [EmptyBody EXCEPT
                        !.success = False,
                        !.error = Lit("CWA API error"),
                        !.message = OrElse(Get(error.response).data.message,
                                           Lit("cannot get weather data"))]))
         ELSE Respond(Json(500, [EmptyBody EXCEPT
                !.success = False,
                !.error = Lit("server error"),
                !.message = Lit("cannot get weather data, check the key")]))

\* Mutant of MissingKey: the key check is forgotten and the handler goes on
\* to the upstream call.
MissingKey_NoCheck(v) == Await(DefaultCity)

\* The answer of each variant when CWA_API_KEY is not set.
MissingKey(v) ==
  CASE v \in {1, 5} ->
         Respond(Json(500, [EmptyBody EXCEPT
           !.success = IF v = 5 THEN False ELSE Undef,
           !.error = Lit("server configuration error"),
           !.message = Lit("set CWA_API_KEY in the .env file")]))
    [] v = 3 ->
         Respond(Json(500, [EmptyBody EXCEPT
           !.success = False,
           !.message = Lit("the server has no CWA_API_KEY")]))
    [] OTHER -> Catch(v, PlainError(KeyNotSet))

(***************************************************************************)
(* The upstream call.  A reply is what `await axios.get(...)` settles      *)
(* with: a 2xx answer with a payload, an answer with an error status       *)
(* (axios rejects with error.response set), or no answer at all (timeout,  *)
(* DNS, reset: axios rejects with no error.response).                      *)
(***************************************************************************)
ErrorStatuses == {401, 404, 503}

\* The body of an error answer: JSON with a message, JSON without one, an
\* empty body (data is ""), or the JSON document null (data is null).
ErrorBodies == {"message", "noMessage", "empty", "null"}

Replies ==
  [kind : {"ok"}, status : {200}, body : {"message"}, d : Descriptors]
  \cup [kind : {"status"}, status : ErrorStatuses, body : ErrorBodies,
        d : {NoPayload}]
  \cup [kind : {"network"}, status : {0}, body : {"empty"}, d : {NoPayload}]

\* The Error axios rejects with.
AxiosError(reply) ==
  IF reply.kind = "status"
  THEN [message |-> <<"Request failed with status code ",
                      ToString(reply.status)>>,
        response |-> Some([status |-> reply.status,
                           data |-> [nullish |-> reply.body = "null",
                                     message |-> IF reply.body = "message"
                                                 THEN Lit("upstream message")
                                                 ELSE Undef]])]
  ELSE PlainError(<<"Network Error">>)

\* locations.find(loc => loc.locationName === name)
FindLocation(locations, name) ==
  LET idx == {k \in 1..Len(locations) : locations[k].locationName = Str(name)}
  IN IF idx = {} THEN None ELSE Some(locations[SetMin(idx)])

\* The success body of variants 1, 2, 4, 5.
SuccessBody(city, updateTime, forecasts) ==
  [EmptyBody EXCEPT !.success = True, !.nested = TRUE, !.city = city,
                    !.updateTime = updateTime, !.forecasts = forecasts]

\* Variants 1, 2, 4, 5: the statements of the try block after the await,
\* given response.data.  A throw is caught by the variant's catch block.
AfterAwait(v, name, data) ==
  IF ~Has(data) \/ ~Has(Get(data).records)
  THEN Catch(v, PlainError(TypeErr("location")))
  ELSE LET records == Get(Get(data).records)
       IN IF ~Has(records.location)
          THEN Catch(v, PlainError(TypeErr("find")))
          ELSE LET locationData == FindLocation(Get(records.location), name)
               IN IF ~Has(locationData)
                  THEN IF v \in {1, 5}
                       THEN Respond(Json(404, [EmptyBody EXCEPT
                              !.success = IF v = 5 THEN False ELSE Undef,
                              !.error = Lit("no data"),
                              !.message = Str(<<"cannot get weather of ">>
                                              \o name)]))
                       ELSE Catch(v, PlainError(<<"no data">>))
                  ELSE IF ~Has(records.resource)
                  THEN Catch(v, PlainError(TypeErr("dataTime")))
                  ELSE LET built ==
                             BuildForecasts(Get(locationData).weatherElement, v)
                       IN IF built.threw
                          THEN Catch(v, PlainError(built.why))
                          ELSE Respond(Json(200,
                                 SuccessBody(Get(locationData).locationName,
                                             Get(records.resource).dataTime,
                                             built.forecasts)))

\* Variant 3: the statements of the try block after the await.
AfterAwaitV3(name, data, now) ==
  IF ~Has(data) \/ ~Has(Get(data).records)
  THEN Catch(3, PlainError(<<"the CWA returned a malformed document">>))
  ELSE LET records == Get(Get(data).records)
           locations == IF Has(records.location) THEN Get(records.location)
                        ELSE <<>>
           found == FindLocation(locations, name)
           locationData == IF Has(found) THEN found
                           ELSE IF locations # <<>> THEN Some(locations[1])
                           ELSE None
       IN IF ~Has(locationData)
          THEN Catch(3, PlainError(<<"no weather data for the city">>))
          ELSE [Respond(Json(200,
                  [EmptyBody EXCEPT
                     !.success = True,
                     !.city = Get(locationData).locationName,
                     !.updateTime =
                        UpdateTimeV3(Get(locationData).weatherElement,
                                     now),
                     !.forecasts =
                        BuildForecastsV3(Get(locationData).weatherElement)]))
                EXCEPT !.res.noStore = TRUE]

\* The handler from the point where axios.get settles, the clock reading
\* `now`.
HandlerResume(v, name, reply, now) ==
  IF reply.kind # "ok" THEN Catch(v, AxiosError(reply))
  ELSE IF v = 3 THEN AfterAwaitV3(name, Payload(name, reply.d), now)
  ELSE AfterAwait(v, name, Payload(name, reply.d))

(***************************************************************************)
(* The handler up to `await axios.get`.  city is req.params.city, the      *)
(* path segment after Express has percent-decoded it once; the route       *)
(* /api/weather/:city only matches a non-empty segment.                    *)
(***************************************************************************)

\* Variants 1, 2, 4, 5: decodeURIComponent, outside the try block.
\* Variant 3 uses req.params.city as it is.
DecodeCity(v, city) ==
  IF v = 3 THEN [threw |-> FALSE, v |-> city]
  ELSE decodeURIComponent(OrElse(Str(city), Undef))

\* The name the handler goes on with, after the substitutions of
\* variant 1 ('current') and variant 2 (falsy, 'undefined', non-member).
Substitute(v, name, cities) ==
  CASE v = 1 -> IF name = <<"current">> THEN DefaultCity ELSE name
    [] v = 2 -> IF name = <<>> \/ name = <<"undefined">> THEN DefaultCity
                ELSE IF ~Includes(cities, name) THEN DefaultCity
                ELSE name
    [] OTHER -> name

HandlerStart(v, city, key, cities) ==
  LET dec == DecodeCity(v, city)
  IN IF dec.threw THEN Throw(PlainError(<<"URI malformed">>))
     ELSE LET name == Substitute(v, dec.v, cities)
          IN IF v = 3 /\ name = <<>>
             THEN Respond(Json(400, [EmptyBody EXCEPT
                    !.success = False,
                    !.message = Lit("a city name is required")]))
             ELSE IF ~Includes(cities, name)
             THEN Respond(InvalidCityResponse(v, name, cities))
             ELSE IF ~key THEN MissingKey(v)
             ELSE Await(name)

(***************************************************************************)
(* The server as a state machine.                                          *)
(***************************************************************************)
VARIABLES
  variant,        \* which of the five programs is deployed
  CWA_API_KEY,    \* TRUE when process.env.CWA_API_KEY is set
  expressMajor,   \* 4: a rejected async handler is dropped; 5: forwarded
  TAIWAN_CITIES,  \* the module-level array
  pc,             \* per request: "idle", "awaiting", "escaped", "done"
  req,            \* per request: the route and req.params.city
  locationName,   \* per request: the handler's local across the await
  reply,          \* per request: what axios.get settled with
  calls,          \* per request: number of axios.get calls made
  sent,           \* per request: number of responses written
  res,            \* per request: the response written
  thrown,         \* per request: the error that left the handler
  clock           \* the reading of the system clock

vars ==
  <<variant, CWA_API_KEY, expressMajor, TAIWAN_CITIES, pc, req, locationName,
    reply, calls, sent, res, thrown, clock>>

\* The requests of a run.
Requests == {1}

\* req.params.city of the requests tried: member names, the words the
\* handlers treat specially, a non-member, and every string of URL
\* characters up to MaxParamLen.
UrlChars == {"%", "2", "5"}

UrlStrings ==
  UNION {[1..n -> UrlChars] : n \in 1..MaxParamLen}

CityParams ==
  {<<"TaipeiCity">>, <<"KaohsiungCity">>, <<"current">>, <<"undefined">>,
   <<"Atlantis">>} \cup UrlStrings

NoReply == [kind |-> "none", status |-> 0, body |-> "empty", d |-> NoPayload]

NoRequest == [route |-> "", city |-> <<>>]

InitOver(R) ==
  /\ variant \in Variants
  /\ CWA_API_KEY \in BOOLEAN
  /\ expressMajor \in {4, 5}
  /\ TAIWAN_CITIES = TaiwanCityList
  /\ pc = [r \in R |-> "idle"]
  /\ req = [r \in R |-> NoRequest]
  /\ locationName = [r \in R |-> <<>>]
  /\ reply = [r \in R |-> NoReply]
  /\ calls = [r \in R |-> 0]
  /\ sent = [r \in R |-> 0]
  /\ res = [r \in R |-> NoResponse]
  /\ thrown = [r \in R |-> NoError]
  /\ clock = 0

Init == InitOver(Requests)

\* The app.use header middleware of variants 2 and 4 sets
\* Cache-Control: no-cache, no-store, must-revalidate on every response.
HeaderMiddleware(v) == v \in {2, 4}

\* Writing a response: the headers set before routing stay on it.
Send(r, response) ==
  /\ res' = [res EXCEPT ![r] =
               [response EXCEPT
                  !.noStore = response.noStore \/ HeaderMiddleware(variant)]]
  /\ sent' = [sent EXCEPT ![r] = sent[r] + 1]
  /\ pc' = [pc EXCEPT ![r] = "done"]

\* Express' built-in answer when no route or handler takes the request:
\* an HTML page.
FinalHandler(code) == Text(code)

\* app.get("/")
RootResponse(v) ==
  IF v \in {1, 5}
  THEN Json(200, [EmptyBody EXCEPT !.message = Lit("CWA weather API")])
  ELSE Text(200)

\* app.get("/api/health"), defined by variants 1 and 5 only.
HealthResponse(v, now) ==
  IF v \in {1, 5}
  THEN Json(200, [EmptyBody EXCEPT !.status = Lit("OK"),
                                   !.timestamp = NowISO(now)])
  ELSE FinalHandler(404)

\* app.get("/api/cities")
CitiesResponse(cities) ==
  Json(200, [EmptyBody EXCEPT !.success = True, !.cities = cities])

\* The last app.use of variants 1 and 5; the others have none.
NotFoundResponse(v) ==
  IF v \in {1, 5}
  THEN Json(404, [EmptyBody EXCEPT
         !.success = IF v = 5 THEN False ELSE Undef,
         !.error = Lit("no such path"),
         !.message = IF v = 5 THEN Lit("check the API address") ELSE Undef])
  ELSE FinalHandler(404)

\* app.use((err, req, res, next) => ...) of variant 1; the others leave an
\* error to Express' built-in handler.
ErrorResponse(v, err) ==
  IF v = 1
  THEN Json(500, [EmptyBody EXCEPT !.error = Lit("server error"),
                                   !.message = Str(err.message)])
  ELSE FinalHandler(500)

Answer(r, route, response) ==
  /\ pc[r] = "idle"
  /\ req' = [req EXCEPT ![r] = [route |-> route, city |-> <<>>]]
  /\ Send(r, response)
  /\ UNCHANGED <<variant, CWA_API_KEY, expressMajor, TAIWAN_CITIES,
                 locationName, reply, calls, thrown, clock>>

GetRoot(r) == Answer(r, "/", RootResponse(variant))

GetHealth(r) == Answer(r, "/api/health", HealthResponse(variant, clock))

GetCities(r) == Answer(r, "/api/cities", CitiesResponse(TAIWAN_CITIES))

NoRoute(r) == Answer(r, "other", NotFoundResponse(variant))

\* Mutant of SetLocal: locationName is one module-level variable that every
\* request in flight shares.
SetLocal_Shared(f, r, value) == [q \in DOMAIN f |-> value]

\* `let locationName` (`const city` in variant 3) is a local of the handler
\* call: an assignment changes the binding of that request alone.
SetLocal(f, r, value) == [f EXCEPT ![r] = value]

\* GET /api/weather/:city, up to the first of: a response, the await, an
\* exception that leaves the handler.
GetCityWeatherOf(r, params) ==
  /\ pc[r] = "idle"
  /\ \E city \in params :
       LET out == HandlerStart(variant, city, CWA_API_KEY, TAIWAN_CITIES)
       IN /\ req' = [req EXCEPT ![r] =
                       [route |-> "/api/weather/:city", city |-> city]]
          /\ CASE out.kind = "respond" ->
                    /\ Send(r, out.res)
                    /\ UNCHANGED <<locationName, calls, thrown>>
               [] out.kind = "await" ->
                    /\ pc' = [pc EXCEPT ![r] = "awaiting"]
                    /\ locationName' =
                         SetLocal(locationName, r, out.locationName)
                    /\ calls' = [calls EXCEPT ![r] = calls[r] + 1]
                    /\ UNCHANGED <<res, sent, thrown>>
               [] OTHER ->
                    /\ pc' = [pc EXCEPT ![r] = "escaped"]
                    /\ thrown' = [thrown EXCEPT ![r] = out.err]
                    /\ UNCHANGED <<locationName, calls, res, sent>>
  /\ UNCHANGED <<variant, CWA_API_KEY, expressMajor, TAIWAN_CITIES, reply,
                 clock>>

GetCityWeather(r) == GetCityWeatherOf(r, CityParams)

\* axios.get settles and the handler runs to its end.
AxiosSettlesWith(r, replies) ==
  /\ pc[r] = "awaiting"
  /\ \E rep \in replies :
       LET out == HandlerResume(variant, locationName[r], rep, clock)
       IN /\ reply' = [reply EXCEPT ![r] = rep]
          /\ IF out.kind = "respond"
             THEN Send(r, out.res) /\ UNCHANGED thrown
             ELSE /\ pc' = [pc EXCEPT ![r] = "escaped"]
                  /\ thrown' = [thrown EXCEPT ![r] = out.err]
                  /\ UNCHANGED <<res, sent>>
  /\ UNCHANGED <<variant, CWA_API_KEY, expressMajor, TAIWAN_CITIES, req,
                 locationName, calls, clock>>

AxiosSettles(r) == AxiosSettlesWith(r, Replies)

\* Express 5 passes the rejection of an async handler to the error
\* handlers; Express 4 does not, and the request is never answered.
ErrorHandler(r) ==
  /\ pc[r] = "escaped"
  /\ expressMajor = 5
  /\ Send(r, ErrorResponse(variant, thrown[r]))
  /\ UNCHANGED <<variant, CWA_API_KEY, expressMajor, TAIWAN_CITIES, req,
                 locationName, reply, calls, thrown, clock>>

\* Time passes: the system clock moves on, whatever the requests do.
Tick ==
  /\ clock < MaxClock
  /\ clock' = clock + 1
  /\ UNCHANGED <<variant, CWA_API_KEY, expressMajor, TAIWAN_CITIES, pc, req,
                 locationName, reply, calls, sent, res, thrown>>

Next ==
  \/ \E r \in Requests :
       \/ GetRoot(r)
       \/ GetHealth(r)
       \/ GetCities(r)
       \/ NoRoute(r)
       \/ GetCityWeather(r)
       \/ AxiosSettles(r)
       \/ ErrorHandler(r)
  \/ Tick

Spec == Init /\ [][Next]_vars

(***************************************************************************)
(* Properties.                                                             *)
(***************************************************************************)
WeatherRoute == "/api/weather/:city"

IsWeather(r) == req[r].route = WeatherRoute

\* No step is left for request r: it was answered, or its handler's
\* rejection was dropped (Express 4).
Finished(r) ==
  \/ pc[r] = "done"
  \/ pc[r] = "escaped" /\ expressMajor = 4

IsJson(response) == response.type = "application/json"

IsSuccess(response) == response.status = 200 /\ response.body.success = True

\* C1: every request to /api/weather/:city, whatever the city, the key and
\* the upstream outcome, ends with exactly one response and that response
\* is JSON; no exception leaves the handler unanswered.
C1_AlwaysOneJsonResponse ==
  \A r \in Requests :
    (IsWeather(r) /\ Finished(r)) =>
       /\ pc[r] = "done"
       /\ sent[r] = 1
       /\ IsJson(res[r])

\* The response names the missing API key.
IsConfigError(response) ==
  /\ response.status = 500
  /\ IsJson(response)
  /\ \/ response.body.error = Lit("server configuration error")
     \/ response.body.message = Lit("the server has no CWA_API_KEY")
     \/ response.body.msg = Str(KeyNotSet)

\* C2 as claimed: with the key unset, every answer to /api/weather/:city is
\* an HTTP 500 configuration error, and no upstream call is made.
C2_UnsetKeyAlways500 ==
  \A r \in Requests :
    (~CWA_API_KEY /\ IsWeather(r) /\ sent[r] = 1) =>
       /\ IsConfigError(res[r])
       /\ calls[r] = 0

\* C2 as amended: with the key unset no request to /api/weather/:city makes
\* an upstream call; a request whose city is a member of TAIWAN_CITIES is
\* answered with an HTTP 500 JSON error naming the missing key as soon as
\* the handler has run; any other answer is an HTTP 400 for a city that is
\* not a member, or an HTTP 500.
C2_UnsetKeyNoCallAnd500ForMembers ==
  \A r \in Requests :
    (~CWA_API_KEY /\ IsWeather(r)) =>
       /\ calls[r] = 0
       /\ pc[r] # "awaiting"
       /\ Includes(TAIWAN_CITIES, req[r].city) =>
            /\ pc[r] = "done"
            /\ sent[r] = 1
            /\ IsConfigError(res[r])
       /\ sent[r] = 1 =>
            \/ res[r].status = 500
            \/ res[r].status = 400 /\ ~Includes(TAIWAN_CITIES, req[r].city)

\* C2 witness: a request for a member city was handled with the key unset.
C2_Witness ==
  \E r \in Requests :
    /\ ~CWA_API_KEY
    /\ IsWeather(r)
    /\ Includes(TAIWAN_CITIES, req[r].city)
    /\ pc[r] = "done"
    /\ res[r].status = 500


\* The city parameters tried that are not members of TAIWAN_CITIES.
NonMemberParams == {c \in CityParams : ~Includes(TaiwanCityList, c)}

\* What a variant does with a city string when the key is set:
\* "substituted" (goes on to the upstream with the default region),
\* "rejected" (HTTP 400), or "neither".
PolicyOf(v, c) ==
  LET out == HandlerStart(v, c, TRUE, TaiwanCityList)
  IN CASE out.kind = "await" /\ out.locationName = DefaultCity ->
            "substituted"
       [] out.kind = "respond" /\ out.res.status = 400 -> "rejected"
       [] OTHER -> "neither"

\* What was done with the city of request r, read off the state.
ObservedPolicy(r) ==
  CASE calls[r] = 1 /\ locationName[r] = DefaultCity -> "substituted"
    [] calls[r] = 0 /\ sent[r] = 1 /\ res[r].status = 400 -> "rejected"
    [] OTHER -> "neither"

\* C3: within one variant every city string that is not a member of
\* TAIWAN_CITIES gets the same treatment: all are replaced by the default
\* region and served, or all are rejected with HTTP 400.
C3_UniformNonMemberPolicy ==
  \A r \in Requests :
    (CWA_API_KEY /\ IsWeather(r) /\ pc[r] # "idle"
       /\ req[r].city \in NonMemberParams) =>
       /\ ObservedPolicy(r) \in {"substituted", "rejected"}
       /\ \A c \in NonMemberParams : PolicyOf(variant, c) = ObservedPolicy(r)

\* The body carries a no-data message.
IsNoDataMessage(body) ==
  \/ body.error = Lit("no data")
  \/ body.msg = Str(<<"no data">>)
  \/ body.message = Str(<<"no weather data for the city">>)

\* C4: when the upstream answers 2xx with a location list that holds no
\* record of the requested region, the response is a not-found error (404
\* or 500) with a no-data message; and a success response always names the
\* requested region as its city.
C4_NoMatchIsNotFound ==
  \A r \in Requests :
    (IsWeather(r) /\ pc[r] = "done" /\ reply[r].kind = "ok") =>
       /\ reply[r].d.shape \in {"other", "empty"} =>
            /\ res[r].status \in {404, 500}
            /\ ~IsSuccess(res[r])
            /\ IsNoDataMessage(res[r].body)
       /\ IsSuccess(res[r]) => res[r].body.city = Str(locationName[r])

\* The replies that are a generic upstream or network failure.
GenericFailures == {rep \in Replies : rep.kind # "ok" /\ rep.status # 401}

\* C5: the response to an upstream 401 differs, in status code or in the
\* error category, from the response to every generic upstream or network
\* failure.
C5_UnauthorizedIsDistinct ==
  \A r \in Requests :
    (IsWeather(r) /\ pc[r] = "done" /\ reply[r].kind = "status"
       /\ reply[r].status = 401) =>
       \A g \in GenericFailures :
         LET out == HandlerResume(variant, locationName[r], g, clock)
         IN out.kind = "respond" =>
              \/ res[r].status # out.res.status
              \/ res[r].body.error # out.res.body.error

\* The payload of request r has a record of the requested region and a
\* resource.dataTime.
HasRegionAndDataTime(r) ==
  /\ IsWeather(r)
  /\ pc[r] = "done"
  /\ reply[r].kind = "ok"
  /\ reply[r].d.shape \in {"match", "otherThenMatch"}
  /\ reply[r].d.resource = "dataTime"

\* C6: when all five known elements carry N time windows, the response has
\* exactly N forecasts in upstream order; rain is the PoP parameterName
\* followed by "%", and weather, minTemp, maxTemp, comfort are the Wx, MinT,
\* MaxT, CI parameterName of the same window.
C6_NWindowsGiveNForecasts ==
  \A r \in Requests :
    (HasRegionAndDataTime(r) /\ reply[r].d.defect \in {"none", "extra"}) =>
       /\ IsSuccess(res[r])
       /\ Len(res[r].body.forecasts) = reply[r].d.n
       /\ \A i \in 1..Len(res[r].body.forecasts) :
            LET f == res[r].body.forecasts[i]
            IN /\ f.startTime = Str(<<"start", ToString(i)>>)
               /\ f.rain = Str(<<"PoP", ToString(i), "%">>)
               /\ f.weather = Str(<<"Wx", ToString(i)>>)
               /\ f.minTemp = Str(<<"MinT", ToString(i)>>)
               /\ f.maxTemp = Str(<<"MaxT", ToString(i)>>)
               /\ f.comfort = Str(<<"CI", ToString(i)>>)

\* The keys of a forecast object the specification names.
ForecastKeys ==
  {"startTime", "endTime", "weather", "rain", "minTemp", "maxTemp", "comfort"}

\* The output field of a known element.
FieldOfElement(f, e) ==
  CASE e = "Wx" -> f.weather
    [] e = "PoP" -> f.rain
    [] e = "MinT" -> f.minTemp
    [] e = "MaxT" -> f.maxTemp
    [] OTHER -> f.comfort

\* C7: every forecast of a success response has all seven keys with string
\* values; when one of the five known elements is absent from the payload
\* the handler still succeeds and that element's field is "".
C7_StableForecastShape ==
  \A r \in Requests :
    /\ (IsWeather(r) /\ pc[r] = "done" /\ IsSuccess(res[r])) =>
          \A i \in 1..Len(res[r].body.forecasts) :
            \A k \in ForecastKeys : IsString(res[r].body.forecasts[i][k])
    /\ (HasRegionAndDataTime(r) /\ reply[r].d.defect = "missing") =>
          /\ IsSuccess(res[r])
          /\ \A i \in 1..Len(res[r].body.forecasts) :
               FieldOfElement(res[r].body.forecasts[i], reply[r].d.elem)
                 = Str(<<>>)

\* C8: every response, on every route, has Content-Type application/json
\* and a Cache-Control header containing no-store.
C8_JsonAndNoStoreEverywhere ==
  \A r \in Requests :
    sent[r] = 1 => (IsJson(res[r]) /\ res[r].noStore)

\* The output field of a known element, under the key names of the variant
\* that wrote the forecast (variant 3 writes wx and rainProb).
FieldOfElementV(f, e, nested) ==
  IF nested THEN FieldOfElement(f, e)
  ELSE CASE e = "Wx" -> f.wx
         [] e = "PoP" -> f.rainProb
         [] OTHER -> FieldOfElement(f, e)

\* C9: when the series of the elements have unequal lengths, or Wx is not
\* the first element, normalisation does not fail: the response has as many
\* forecasts as the Wx series has windows, and a field whose element has no
\* window at that index is "".
C9_DefensiveIndexing ==
  \A r \in Requests :
    (HasRegionAndDataTime(r)
       /\ \/ reply[r].d.defect = "short"
          \/ reply[r].d.defect = "none" /\ ~reply[r].d.wxFirst) =>
       /\ IsSuccess(res[r])
       /\ Len(res[r].body.forecasts) = ElemLen("Wx", reply[r].d)
       /\ \A i \in 1..Len(res[r].body.forecasts) :
            \A e \in KnownNames :
              i > ElemLen(e, reply[r].d) =>
                FieldOfElementV(res[r].body.forecasts[i], e,
                                res[r].body.nested) = Str(<<>>)

\* C10: updateTime is resource.dataTime when the payload has one; otherwise
\* the handler still succeeds and updateTime is the start time of the first
\* period; when that is absent too it is the clock reading.
C10_UpdateTimeFallbackChain ==
  \A r \in Requests :
    (IsWeather(r) /\ pc[r] = "done" /\ reply[r].kind = "ok"
       /\ reply[r].d.shape \in {"match", "otherThenMatch"}
       /\ reply[r].d.defect \in {"none", "noTimes"}) =>
       /\ IsSuccess(res[r])
       /\ res[r].body.updateTime \in
            IF reply[r].d.resource = "dataTime" THEN {DataTime}
            ELSE IF reply[r].d.n > 0 /\ reply[r].d.defect = "none"
                 THEN {Str(<<"start", "1">>)}
            ELSE {NowISO(now) : now \in ClockValues}


(***************************************************************************)
(* Concurrent requests.  Node runs one handler at a time and a handler     *)
(* gives up control only at `await axios.get`, so two requests interleave  *)
(* exactly at the actions above: either may start, settle or be answered   *)
(* while the other is in flight.                                           *)
(***************************************************************************)
ConcRequests == {1, 2}

ConcCityParams ==
  {<<"TaipeiCity">>, <<"KaohsiungCity">>, <<"current">>, <<"Atlantis">>,
   <<"%">>}

\* The replies tried with two requests: a well-formed payload of 0, 1 or
\* FixedPeriods windows with or without a record of the requested region,
\* an upstream 401 with a JSON message or with the document null, and a
\* network error.
ConcReplies ==
  {rep \in Replies :
     \/ /\ rep.kind = "ok"
        /\ rep.d.n \in {0, 1, FixedPeriods}
        /\ rep.d.wxFirst
        /\ rep.d.defect = "none"
        /\ rep.d.elem = "Wx"
        /\ rep.d.resource = "dataTime"
        /\ rep.d.shape \in {"match", "other"}
     \/ /\ rep.kind = "status"
        /\ rep.status = 401
        /\ rep.body \in {"message", "null"}
     \/ rep.kind = "network"}

InitConc == InitOver(ConcRequests)

NextConc ==
  \/ \E r \in ConcRequests :
       \/ GetRoot(r)
       \/ GetHealth(r)
       \/ GetCities(r)
       \/ NoRoute(r)
       \/ GetCityWeatherOf(r, ConcCityParams)
       \/ AxiosSettlesWith(r, ConcReplies)
       \/ ErrorHandler(r)
  \/ Tick

SpecConc == InitConc /\ [][NextConc]_vars

\* What the handler does for one request on its own: a function of the
\* deployed variant, the request's city, the key, the reply to the
\* request's own upstream call (NoReply while that call is pending) and the
\* clock reading when that reply arrived.
OwnOutcome(v, city, key, rep, now) ==
  LET start == HandlerStart(v, city, key, TaiwanCityList)
  IN IF start.kind = "await" /\ rep # NoReply
     THEN HandlerResume(v, start.locationName, rep, now)
     ELSE start

\* The response as it leaves the server, with the headers set before
\* routing.
Delivered(v, response) ==
  [response EXCEPT !.noStore = response.noStore \/ HeaderMiddleware(v)]

\* The state of request r is the one the handler reaches for r's own city,
\* the key, the reply to r's own call and the clock reading `now`.
OwnState(r, now) ==
  LET out == OwnOutcome(variant, req[r].city, CWA_API_KEY, reply[r], now)
  IN /\ pc[r] = "awaiting" =>
          /\ out.kind = "await"
          /\ locationName[r] = out.locationName
          /\ calls[r] = 1
          /\ sent[r] = 0
     /\ pc[r] = "escaped" =>
          /\ out.kind = "throw"
          /\ thrown[r] = out.err
          /\ sent[r] = 0
     /\ pc[r] = "done" =>
          /\ out.kind # "await"
          /\ sent[r] = 1
          /\ res[r] = Delivered(variant,
                         IF out.kind = "respond" THEN out.res
                         ELSE ErrorResponse(variant, out.err))
          /\ calls[r] = IF reply[r] = NoReply THEN 0 ELSE 1

\* C11 as stated: TAIWAN_CITIES keeps its initial value, and two answered
\* requests to /api/weather/:city with the same city and the same reply to
\* their own upstream call (the key being the same) have the same response.
C11_ResponseDeterminedByOwnInputs ==
  /\ TAIWAN_CITIES = TaiwanCityList
  /\ \A r \in DOMAIN pc : \A q \in DOMAIN pc :
       (/\ IsWeather(r) /\ IsWeather(q)
        /\ pc[r] = "done" /\ pc[q] = "done"
        /\ req[r].city = req[q].city
        /\ reply[r] = reply[q]) => res[r] = res[q]

\* C11 amended: under every interleaving of the requests in flight,
\* TAIWAN_CITIES keeps its initial value, and the state and the response of
\* each request to /api/weather/:city are those the handler produces for
\* that request's own city, the API key, the reply to its own upstream call
\* and a reading of the system clock no later than the present one,
\* whatever the other request did in between.
C11_RequestsAreIsolated ==
  /\ TAIWAN_CITIES = TaiwanCityList
  /\ \A r \in DOMAIN pc :
       IsWeather(r) => \E now \in 0..clock : OwnState(r, now)

\* C11 witness: one request has been answered with the forecast of its own
\* region while the other, for another region, is in flight.
C11_Witness ==
  \E r \in DOMAIN pc : \E q \in DOMAIN pc :
    /\ r # q
    /\ IsWeather(r) /\ IsWeather(q)
    /\ pc[r] = "done"
    /\ IsSuccess(res[r])
    /\ res[r].body.city = Str(req[r].city)
    /\ pc[q] = "awaiting"
    /\ locationName[q] # locationName[r]

====
